---- MODULE Spec2Model ----
(***************************************************************************)
(* compute_index of src/src/indices.py: a standard scaler followed by a    *)
(* one-component PCA and a min-max rescale, modelled step by step.         *)
(*                                                                         *)
(* Numbers.  The table holds integers (or NaN).  A standardized value is   *)
(* an integer over the square root of an integer, and a projected score is *)
(* a sum of two such terms, so every real number of the computation is     *)
(* written exactly as                                                      *)
(*        (p / sqrt(ra) + q / sqrt(rb)) / sqrt(d)                          *)
(* with integers p, q and positive integers ra, rb, d.  Signs and          *)
(* comparisons of these numbers are decided in integer arithmetic; the     *)
(* rounding of the floating-point build is not modelled.                   *)
(*                                                                         *)
(* Two more specifications follow the one of compute_index: SpecEnrich for *)
(* choose_population_csv of src/src/enrich_ibge.py, and SpecExtract for    *)
(* main and discover_and_fetch_sidra_population of src/src/extract.py.     *)
(* Each specification moves its own variables and holds the others idle.   *)
(***************************************************************************)
EXTENDS Integers, Sequences, FiniteSets, TLC

\* Largest number of rows of an input table.
MaxRows == 3

\* A missing cell; a present cell holding v is <<v>>.
NaN == << >>

\* The argument features=None.
None == << "None" >>

\* Values a cell of each numeric column may hold.  The key column
\* municipio_id has no missing cell; populacao, joined in from another
\* table, may have.
ValuesId == {10, 20, 30}
ValuesPop == {5, 10}

Range(s) == {s[i] : i \in 1..Len(s)}

----------------------------------------------------------------------------
(* The input table.                                                        *)

\* Column layouts of the input table: "municipio" holds text, the others
\* numbers.
ColumnSets ==
    { << >>,
      << "municipio" >>,
      << "municipio_id" >>,
      << "municipio_id", "municipio" >>,
      << "municipio_id", "municipio", "populacao" >> }

Dtype(c) == IF c = "municipio" THEN "object" ELSE "number"

CellValues(c) ==
    IF c = "municipio_id"
    THEN {<<v>> : v \in ValuesId}
    ELSE {NaN} \cup {<<v>> : v \in ValuesPop}

\* df.select_dtypes(include=["number"]).columns.tolist()
NumericColumnsNoKey(df) ==
    SelectSeq(df.columns, LAMBDA c : Dtype(c) = "number" /\ c # "municipio_id")
NumericColumns(df) == SelectSeq(df.columns, LAMBDA c : Dtype(c) = "number")

\* A table: its columns, its row index (a RangeIndex) and the cells of its
\* numeric columns, row by row.  Text cells are not read by compute_index on
\* the inputs considered and are left out.
TablesOf(cols, n) ==
    LET num == {c \in Range(cols) : Dtype(c) = "number"} IN
    { [columns |-> cols, index |-> [i \in 1..n |-> i - 1], rows |-> r] :
        r \in [1..n -> {row \in [num -> UNION {CellValues(c) : c \in num}] :
                          \A c \in num : row[c] \in CellValues(c)}] }

Tables == UNION {TablesOf(cols, n) : cols \in ColumnSets, n \in 0..MaxRows}

\* The lists a caller may pass as features: None, or numeric columns of the
\* table in table order.
FeatureArgs(df) ==
    LET nc == NumericColumns(df) IN
    {None, << >>} \cup {<<nc[i]>> : i \in 1..Len(nc)}
                  \cup (IF Len(nc) = 2 THEN {nc} ELSE {})

----------------------------------------------------------------------------
(* Exact numbers.                                                          *)

Sign(x) == IF x > 0 THEN 1 ELSE IF x < 0 THEN -1 ELSE 0

Num(p, ra, q, rb, d) == [p |-> p, ra |-> ra, q |-> q, rb |-> rb, d |-> d]

ZeroNum == Num(0, 1, 0, 1, 1)
OneNum == Num(1, 1, 0, 1, 1)

\* Sign of p/sqrt(ra) + q/sqrt(rb).
SgnNum(x) ==
    LET s1 == Sign(x.p)
        s2 == Sign(x.q)
        l == x.p * x.p * x.rb
        r == x.q * x.q * x.ra
    IN  IF s1 = 0 THEN s2
        ELSE IF s2 = 0 THEN s1
        ELSE IF s1 = s2 THEN s1
        ELSE IF l = r THEN 0
        ELSE IF l > r THEN s1 ELSE s2

\* x - y and k * x, for numbers over the same radicands.
SubNum(x, y) == Num(x.p - y.p, x.ra, x.q - y.q, x.rb, x.d)
ScaleNum(k, x) == Num(k * x.p, x.ra, k * x.q, x.rb, x.d)
NegNum(x) == ScaleNum(-1, x)
AbsNum(x) == IF SgnNum(x) < 0 THEN NegNum(x) ELSE x

LeqNum(x, y) == SgnNum(SubNum(x, y)) <= 0
EqNum(x, y) == SgnNum(SubNum(x, y)) = 0

\* score.max() and score.min()
MaxOf(score) == CHOOSE m \in Range(score) : \A s \in Range(score) : LeqNum(s, m)
MinOf(score) == CHOOSE m \in Range(score) : \A s \in Range(score) : LeqNum(m, s)

RECURSIVE SumSeq(_)
SumSeq(s) == IF s = << >> THEN 0 ELSE Head(s) + SumSeq(Tail(s))

----------------------------------------------------------------------------
(* The steps of compute_index.                                             *)

\* df and caller_features are the caller's arguments; features, X, Xs and
\* score are the locals of compute_index; result is what the call returned
\* or raised.
VARIABLES df, caller_features, features, pc, X, Xs, score, result

indexVars == <<df, caller_features, features, pc, X, Xs, score, result>>

\* The state of choose_population_csv of src/src/enrich_ibge.py: the two
\* files it looks at (the real and the seed population CSV), its position,
\* the frame read at line 21, and the path it returned or the exception it
\* raised (main, the caller, binds it to pop_csv at line 45).
VARIABLES real_file, seed_file, choose_pc, read_df, pop_csv

enrichVars == <<real_file, seed_file, choose_pc, read_df, pop_csv>>

\* The state of the extraction script src/src/extract.py: the command line
\* and the option strings registered so far by main; the arguments of
\* discover_and_fetch_sidra_population, the number of candidates it has
\* gone through, the response to its last request, the CSV files written
\* under data/raw, and what the call returned or raised.  passed_over
\* records whether a response that qualified was left behind.
VARIABLES argv, registered, extract_pc, candidates, min_rows, tried, data,
          raw_files, out, passed_over

extractVars == <<argv, registered, extract_pc, candidates, min_rows, tried,
                 data, raw_files, out, passed_over>>

vars == <<indexVars, enrichVars, extractVars>>

\* The value 0 that fillna(0) writes into a missing cell.
FillnaOne(cell) == IF cell = NaN THEN 1 ELSE cell[1]
Fillna(cell) == IF cell = NaN THEN 0 ELSE cell[1]

\* What line 28 leaves in the caller's table: df[features] is a new frame and
\* fillna(0), called without inplace=True, returns another one, so the
\* caller's table keeps its missing cells.
FillnaInplace(d, f) ==
    [d EXCEPT !.rows =
        [i \in 1..Len(d.rows) |->
            [c \in DOMAIN d.rows[i] |->
                IF c \in Range(f) /\ d.rows[i][c] = NaN
                THEN <<0>> ELSE d.rows[i][c]]]]
CallerTableAfterFill(d, f) == d

\* df[features].fillna(0): the dense matrix, one sequence per row.
SelectFilled(d, f) ==
    [i \in 1..Len(d.rows) |-> [j \in 1..Len(f) |-> Fillna(d.rows[i][f[j]])]]

Col(M, j) == [i \in 1..Len(M) |-> M[i][j]]

\* n * (x_i - mean) and n^2 * (population variance) of column j.
DevFlipped(M, i, j) == SumSeq(Col(M, j)) - Len(M) * M[i][j]
Dev(M, i, j) == Len(M) * M[i][j] - SumSeq(Col(M, j))
Rad(M, j) ==
    Len(M) * SumSeq([i \in 1..Len(M) |-> M[i][j] * M[i][j]])
        - SumSeq(Col(M, j)) * SumSeq(Col(M, j))

\* StandardScaler on entry (i, j): (x - mean) / scale, the value num / sqrt(rad).
\* scale is the population standard deviation (ddof = 0), and 1 for a column
\* of zero variance.
StandardizeSample(M, i, j) ==
    IF Rad(M, j) = 0 \/ Len(M) = 1
    THEN [num |-> Dev(M, i, j) \div Len(M), rad |-> 1]
    ELSE [num |-> Dev(M, i, j) * (Len(M) - 1),
          rad |-> Len(M) * Rad(M, j) * (Len(M) - 1)]
Standardize(M, i, j) ==
    IF Rad(M, j) = 0
    THEN [num |-> Dev(M, i, j) \div Len(M), rad |-> 1]
    ELSE [num |-> Dev(M, i, j), rad |-> Rad(M, j)]

\* scaler.fit_transform(X) for a matrix of at least one row.
FitTransform(M, k) ==
    [i \in 1..Len(M) |-> [j \in 1..k |-> Standardize(M, i, j)]]

\* Xs.ravel() of a one-column matrix.
Ravel(Z) == [i \in 1..Len(Z) |-> Num(Z[i][1].num, Z[i][1].rad, 0, 1, 1)]

\* Whether column j of the standardized matrix varies, and the sign of the
\* cross term of the two columns (the sign of their correlation).
Varies(Z, j) == \E i \in 1..Len(Z) : Z[i][j].num # 0
Cross(Z) == SumSeq([i \in 1..Len(Z) |-> Z[i][1].num * Z[i][2].num])

\* Directions (up to sign and length) the first principal axis of a
\* two-column standardized matrix can take.  The Gram matrix is
\* [[n, g], [g, n]] when both columns vary, with g of the sign of Cross; it
\* is diagonal when one column is constant.  With g = 0 every direction has
\* the same variance and the decomposition may return any of them; four are
\* kept.
AxesFirstOnly(Z) == {<<1, 0>>}
Axes(Z) ==
    IF ~Varies(Z, 2) THEN {<<1, 0>>}
    ELSE IF ~Varies(Z, 1) THEN {<<0, 1>>}
    ELSE IF Cross(Z) > 0 THEN {<<1, 1>>}
    ELSE IF Cross(Z) < 0 THEN {<<1, -1>>}
    ELSE {<<1, 0>>, <<0, 1>>, <<1, 1>>, <<1, -1>>}

\* The projection of row i on the direction w, scaled to unit length.
Project(Z, w, s) ==
    [i \in 1..Len(Z) |->
        Num(s * w[1] * Z[i][1].num, Z[i][1].rad,
            s * w[2] * Z[i][2].num, Z[i][2].rad,
            w[1] * w[1] + w[2] * w[2])]

\* svd_flip fixes the orientation of the axis.  The convention is the
\* library's: either the score of largest magnitude is made positive
\* (decision on U), or the loading of largest magnitude is (decision on V).
\* Where two candidates tie in magnitude with opposite signs, rounding
\* decides, and both orientations are possible.
SvdFlipConventions == {"u_based", "v_based"}

FlipSigns(conv, w, raw) ==
    IF conv = "v_based"
    THEN IF w[1] = -w[2] THEN {1, -1} ELSE {1}
    ELSE LET top == {i \in 1..Len(raw) :
                        \A k \in 1..Len(raw) : LeqNum(AbsNum(raw[k]), AbsNum(raw[i]))}
         IN  IF \A i \in top : SgnNum(raw[i]) = 0 THEN {1}
             ELSE {SgnNum(raw[i]) : i \in top}

\* PCA(n_components=1).fit_transform(Xs).ravel(): every score vector the
\* decomposition can return.  The columns of Xs have mean zero, so PCA's own
\* centering changes nothing.
PcaScores(Z) ==
    {Project(Z, w, s) :
        <<w, s>> \in {<<w, s>> \in Axes(Z) \X {1, -1} :
                        \E conv \in SvdFlipConventions :
                            s \in FlipSigns(conv, w, Project(Z, w, 1))}}

\* score.max() == score.min()
NeverDegenerate(s) == FALSE
IsDegenerate(s) == EqNum(MaxOf(s), MinOf(s))

\* (score - score.min()) / (score.max() - score.min()), entry by entry: the
\* quotient num / den.
RescaleByMax(s) ==
    [i \in 1..Len(s) |-> [num |-> s[i], den |-> MaxOf(s)]]
RescaleReversed(s) ==
    [i \in 1..Len(s) |->
        [num |-> SubNum(s[Len(s) + 1 - i], MinOf(s)),
         den |-> SubNum(MaxOf(s), MinOf(s))]]
Rescale(s) ==
    [i \in 1..Len(s) |->
        [num |-> SubNum(s[i], MinOf(s)), den |-> SubNum(MaxOf(s), MinOf(s))]]

\* The score 0.0, and pd.Series(0.0, index=df.index).
ZeroScore == [num |-> ZeroNum, den |-> OneNum]
ZerosEmpty(d) == << >>
Zeros(d) == [i \in 1..Len(d.index) |-> ZeroScore]

Series(d, v) == [kind |-> "Series", index |-> d.index, values |-> v]
Raised(e) == [kind |-> e, index |-> << >>, values |-> << >>]
NoResult == [kind |-> "none", index |-> << >>, values |-> << >>]

\* No call of compute_index is under way.
IndexIdle ==
    /\ df = [columns |-> << >>, index |-> << >>, rows |-> << >>]
    /\ caller_features = None
    /\ features = None
    /\ pc = "idle"
    /\ X = << >>
    /\ Xs = << >>
    /\ score = << >>
    /\ result = NoResult

\* A file on disk: whether it exists, whether pd.read_csv can parse it, and
\* how many data rows (lines after the header) it holds.
Absent == [exists |-> FALSE, readable |-> FALSE, rows |-> 0]

\* The frame pd.read_csv returns, by its number of rows; NoFrame before.
NoFrame == [kind |-> "none", len |-> 0]
Frame(n) == [kind |-> "DataFrame", len |-> n]

\* What a call has returned or raised: a path, or the name of an exception.
NoPath == << >>
Pending == [kind |-> "none", path |-> NoPath]
ReturnedPath(p) == [kind |-> "path", path |-> p]
RaisedError(e) == [kind |-> e, path |-> NoPath]

\* No call of choose_population_csv is under way.
EnrichIdle ==
    /\ real_file = Absent
    /\ seed_file = Absent
    /\ choose_pc = "idle"
    /\ read_df = NoFrame
    /\ pop_csv = Pending

\* The argument candidates: None, or a list of table numbers.
NoCandidates == [none |-> TRUE, list |-> << >>]
Candidates(l) == [none |-> FALSE, list |-> l]

\* The response to a request before any request was made.
NoData == [kind |-> "none", len |-> 0, tabular |-> FALSE]

\* Neither main nor discover_and_fetch_sidra_population is under way.
ExtractIdle ==
    /\ argv = {}
    /\ registered = << >>
    /\ extract_pc = "idle"
    /\ candidates = NoCandidates
    /\ min_rows = 0
    /\ tried = 0
    /\ data = NoData
    /\ raw_files = {}
    /\ out = Pending
    /\ passed_over = FALSE

Init ==
    /\ EnrichIdle
    /\ ExtractIdle
    /\ df \in Tables
    /\ caller_features \in FeatureArgs(df)
    /\ features = caller_features
    /\ pc = "start"
    /\ X = << >>
    /\ Xs = << >>
    /\ score = << >>
    /\ result = NoResult

\* Lines 20-22: features defaults to the numeric columns.
SelectFeatures ==
    /\ pc = "start"
    /\ features' = IF features = None THEN NumericColumns(df) ELSE features
    /\ pc' = "check"
    /\ UNCHANGED <<df, caller_features, X, Xs, score, result>>
    /\ UNCHANGED <<enrichVars, extractVars>>

\* Lines 24-26: no feature, a series of zeros.
NoFeatures ==
    /\ pc = "check"
    /\ Len(features) = 0
    /\ result' = Series(df, Zeros(df))
    /\ pc' = "done"
    /\ UNCHANGED <<df, caller_features, features, X, Xs, score>>
    /\ UNCHANGED <<enrichVars, extractVars>>

\* Line 28: X = df[features].fillna(0)
Fill ==
    /\ pc = "check"
    /\ Len(features) # 0
    /\ X' = SelectFilled(df, features)
    /\ df' = CallerTableAfterFill(df, features)
    /\ pc' = "scale"
    /\ UNCHANGED <<caller_features, features, Xs, score, result>>
    /\ UNCHANGED <<enrichVars, extractVars>>

\* Lines 29-30: StandardScaler().fit_transform(X) rejects a matrix of no row
\* with a ValueError, which compute_index does not catch.
ScaleEmpty ==
    /\ pc = "scale"
    /\ Len(X) = 0
    /\ result' = Raised("ValueError")
    /\ pc' = "raised"
    /\ UNCHANGED <<df, caller_features, features, X, Xs, score>>
    /\ UNCHANGED <<enrichVars, extractVars>>

Scale ==
    /\ pc = "scale"
    /\ Len(X) > 0
    /\ Xs' = FitTransform(X, Len(features))
    /\ pc' = "reduce"
    /\ UNCHANGED <<df, caller_features, features, X, score, result>>
    /\ UNCHANGED <<enrichVars, extractVars>>

\* Lines 32-34: one column, the scaled column is the score.
SingleColumn ==
    /\ pc = "reduce"
    /\ Len(features) = 1
    /\ score' = Ravel(Xs)
    /\ pc' = "normalize"
    /\ UNCHANGED <<df, caller_features, features, X, Xs, result>>
    /\ UNCHANGED <<enrichVars, extractVars>>

\* Lines 35-37: several columns, the first principal component.
Pca ==
    /\ pc = "reduce"
    /\ Len(features) > 1
    /\ score' \in PcaScores(Xs)
    /\ pc' = "normalize"
    /\ UNCHANGED <<df, caller_features, features, X, Xs, result>>
    /\ UNCHANGED <<enrichVars, extractVars>>

\* Lines 40-41: a constant score, a series of zeros.
NormalizeDegenerate ==
    /\ pc = "normalize"
    /\ IsDegenerate(score)
    /\ result' = Series(df, Zeros(df))
    /\ pc' = "done"
    /\ UNCHANGED <<df, caller_features, features, X, Xs, score>>
    /\ UNCHANGED <<enrichVars, extractVars>>

\* Line 42: the min-max rescale.
Normalize ==
    /\ pc = "normalize"
    /\ ~IsDegenerate(score)
    /\ result' = Series(df, Rescale(score))
    /\ pc' = "done"
    /\ UNCHANGED <<df, caller_features, features, X, Xs, score>>
    /\ UNCHANGED <<enrichVars, extractVars>>

\* Line 14, entered again: compute_index keeps nothing outside its locals,
\* which are new in every call (the scaler and the PCA are built at lines 29
\* and 36 of the call itself).  The caller calls again on the same table
\* with any feature list.
CallAgain ==
    /\ pc \in {"done", "raised"}
    /\ caller_features' \in FeatureArgs(df)
    /\ features' = caller_features'
    /\ pc' = "start"
    /\ X' = << >>
    /\ Xs' = << >>
    /\ score' = << >>
    /\ result' = NoResult
    /\ UNCHANGED df
    /\ UNCHANGED <<enrichVars, extractVars>>

Next ==
    \/ CallAgain
    \/ SelectFeatures
    \/ NoFeatures
    \/ Fill
    \/ ScaleEmpty
    \/ Scale
    \/ SingleColumn
    \/ Pca
    \/ NormalizeDegenerate
    \/ Normalize

Spec == Init /\ [][Next]_vars

TypeOK ==
    /\ pc \in {"start", "check", "scale", "reduce", "normalize", "done", "raised"}
    /\ result.kind \in {"none", "Series", "ValueError"}

----------------------------------------------------------------------------
(* choose_population_csv of src/src/enrich_ibge.py.                        *)

\* Largest number of data rows of a population CSV.
MaxCsvRows == 2

\* The states a CSV file on disk may be in.  A file that exists but cannot be
\* parsed (no column, a binary file, a directory, no read permission) makes
\* pd.read_csv raise; a file with a header line and no data row is read as a
\* frame of length 0.
CsvFiles ==
    {Absent} \cup {[exists |-> TRUE, readable |-> b, rows |-> n] :
                     b \in BOOLEAN, n \in 0..MaxCsvRows}

\* Lines 17-18: the two paths, relative to the data directory.
RealPath == << "raw", "ibge_population.csv" >>
SeedPath == << "seeds", "ibge_population_seed.csv" >>

\* Line 22: len(df) > 0
HasRowsOrNone(d) == d.len >= 0
HasRows(d) == d.len > 0

InitEnrich ==
    /\ IndexIdle
    /\ ExtractIdle
    /\ real_file \in CsvFiles
    /\ seed_file \in CsvFiles
    /\ choose_pc = "exists"
    /\ read_df = NoFrame
    /\ pop_csv = Pending

\* Line 19: real.exists() is true.
RealExists ==
    /\ choose_pc = "exists"
    /\ real_file.exists
    /\ choose_pc' = "read"
    /\ UNCHANGED <<real_file, seed_file, read_df, pop_csv>>
    /\ UNCHANGED <<indexVars, extractVars>>

\* Line 19: real.exists() is false, on to the seed at line 29.
RealAbsent ==
    /\ choose_pc = "exists"
    /\ ~real_file.exists
    /\ choose_pc' = "seed"
    /\ UNCHANGED <<real_file, seed_file, read_df, pop_csv>>
    /\ UNCHANGED <<indexVars, extractVars>>

\* Line 21: df = pd.read_csv(real)
ReadReal ==
    /\ choose_pc = "read"
    /\ real_file.readable
    /\ read_df' = Frame(real_file.rows)
    /\ choose_pc' = "len"
    /\ UNCHANGED <<real_file, seed_file, pop_csv>>
    /\ UNCHANGED <<indexVars, extractVars>>

\* Lines 21, 27-28: pd.read_csv raises, the exception is caught and the
\* function goes on to the seed.
ReadRealFails ==
    /\ choose_pc = "read"
    /\ ~real_file.readable
    /\ choose_pc' = "seed"
    /\ UNCHANGED <<real_file, seed_file, read_df, pop_csv>>
    /\ UNCHANGED <<indexVars, extractVars>>

\* Lines 22-24: the real file has rows and is returned.
ReturnReal ==
    /\ choose_pc = "len"
    /\ HasRows(read_df)
    /\ pop_csv' = ReturnedPath(RealPath)
    /\ choose_pc' = "returned"
    /\ UNCHANGED <<real_file, seed_file, read_df>>
    /\ UNCHANGED <<indexVars, extractVars>>

\* Lines 25-26: the real file is empty, on to the seed.
RealEmpty ==
    /\ choose_pc = "len"
    /\ ~HasRows(read_df)
    /\ choose_pc' = "seed"
    /\ UNCHANGED <<real_file, seed_file, read_df, pop_csv>>
    /\ UNCHANGED <<indexVars, extractVars>>

\* Lines 29-31: the seed exists and is returned, unread.
ReturnSeed ==
    /\ choose_pc = "seed"
    /\ seed_file.exists
    /\ pop_csv' = ReturnedPath(SeedPath)
    /\ choose_pc' = "returned"
    /\ UNCHANGED <<real_file, seed_file, read_df>>
    /\ UNCHANGED <<indexVars, extractVars>>

\* Line 32: no seed either.
RaiseNotFound ==
    /\ choose_pc = "seed"
    /\ ~seed_file.exists
    /\ pop_csv' = RaisedError("FileNotFoundError")
    /\ choose_pc' = "raised"
    /\ UNCHANGED <<real_file, seed_file, read_df>>
    /\ UNCHANGED <<indexVars, extractVars>>

NextEnrich ==
    \/ RealExists
    \/ RealAbsent
    \/ ReadReal
    \/ ReadRealFails
    \/ ReturnReal
    \/ RealEmpty
    \/ ReturnSeed
    \/ RaiseNotFound

SpecEnrich == InitEnrich /\ [][NextEnrich]_vars

----------------------------------------------------------------------------
(* main and discover_and_fetch_sidra_population of src/src/extract.py.     *)

\* Largest number of candidates of an explicit candidate list, largest
\* min_rows, and largest length of the JSON list of a response.
MaxCandidates == 2
MaxMinRows == 2
MaxDataLen == 3

\* Lines 378-385: the option strings main registers, in the order of its
\* add_argument calls.
MainOptions ==
    << "--ibge", "--ibge-pop", "--sidra-pop", "--sidra-discover",
       "--sidra-bruteforce", "--sidra-quick", "--sidra-normalize",
       "--sidra-normalize" >>

\* The command lines: any set of the flags.
CommandLines == SUBSET Range(MainOptions)

\* Line 108: the default candidates.
DefaultCandidates == << 6579, 1419, 1410, 93, 1688, 204, 262, 205, 59 >>

\* Tables a caller names in an explicit list.
TableIds == {6579, 1419}

RECURSIVE SeqsUpTo(_, _)
SeqsUpTo(S, n) ==
    IF n = 0 THEN {<< >>}
    ELSE LET shorter == SeqsUpTo(S, n - 1) IN
         shorter \cup {Append(q, x) : q \in shorter, x \in S}

\* The values of the argument candidates: None or a list of tables.
CandidateArgs ==
    {NoCandidates} \cup {Candidates(l) : l \in SeqsUpTo(TableIds, MaxCandidates)}

\* What a request for a table comes back with: the request fails (no
\* connection, or a status raise_for_status rejects), the body is not JSON,
\* the JSON value is not a list, or it is a list of len entries, the first
\* one the header.  tabular says whether the header and the entries after it
\* are iterable, so that dict(zip(header, r)) at line 124 builds a row.
Responses ==
    { [kind |-> k, len |-> 0, tabular |-> FALSE] :
        k \in {"http_error", "not_json", "not_list"} }
    \cup { [kind |-> "list", len |-> n, tabular |-> b] :
             n \in 0..MaxDataLen, b \in BOOLEAN }

\* Line 120: rows = data[1:]
RowCount(r) == r.len - 1

\* Line 121: len(rows) >= min_rows
EnoughRowsStrict(n, m) == n > m
EnoughRows(n, m) == n >= m

\* Line 125: the path of the CSV of table t, relative to the data directory.
SidraCsv(t) == << "raw", "sidra_table_", t, "_population.csv" >>

\* A response with a header and at least m well-formed data rows.
Qualifies(r, m) == r.kind = "list" /\ r.tabular /\ r.len >= m + 1

\* The entry points: the script run from the command line, or
\* discover_and_fetch_sidra_population called with its arguments, with
\* data/raw in place and holding no SIDRA file.
InitExtract ==
    /\ IndexIdle
    /\ EnrichIdle
    /\ registered = << >>
    /\ tried = 0
    /\ data = NoData
    /\ raw_files = {}
    /\ out = Pending
    /\ passed_over = FALSE
    /\ \/ /\ extract_pc = "main"
          /\ argv \in CommandLines
          /\ candidates = NoCandidates
          /\ min_rows = 0
       \/ /\ extract_pc = "discover"
          /\ argv = {}
          /\ candidates \in CandidateArgs
          /\ min_rows \in 1..MaxMinRows

\* Lines 378-385: parser.add_argument registers an option string that is
\* not registered yet.
AddArgument ==
    /\ extract_pc = "main"
    /\ Len(registered) < Len(MainOptions)
    /\ MainOptions[Len(registered) + 1] \notin Range(registered)
    /\ registered' = Append(registered, MainOptions[Len(registered) + 1])
    /\ UNCHANGED <<argv, extract_pc, candidates, min_rows, tried, data,
                   raw_files, out, passed_over>>
    /\ UNCHANGED <<indexVars, enrichVars>>

\* Lines 378-385: parser.add_argument is given an option string that is
\* registered already; argparse (conflict_handler "error") raises
\* ArgumentError, which main does not catch.  Line 386, parse_args, comes
\* after the last add_argument and is not reached.
ArgumentConflict ==
    /\ extract_pc = "main"
    /\ Len(registered) < Len(MainOptions)
    /\ MainOptions[Len(registered) + 1] \in Range(registered)
    /\ out' = RaisedError("ArgumentError")
    /\ extract_pc' = "raised"
    /\ UNCHANGED <<argv, registered, candidates, min_rows, tried, data,
                   raw_files, passed_over>>
    /\ UNCHANGED <<indexVars, enrichVars>>

\* Lines 107-109: candidates defaults to the list of line 108.
DiscoverStart ==
    /\ extract_pc = "discover"
    /\ candidates' = IF candidates.none THEN Candidates(DefaultCandidates)
                     ELSE candidates
    /\ extract_pc' = "loop"
    /\ UNCHANGED <<argv, registered, min_rows, tried, data, raw_files, out,
                   passed_over>>
    /\ UNCHANGED <<indexVars, enrichVars>>

\* The candidate skipped with response r: the loop goes on to the next one
\* and nothing is written.
Skip(r) ==
    /\ data' = r
    /\ tried' = tried + 1
    /\ passed_over' = (passed_over \/ Qualifies(r, min_rows))
    /\ UNCHANGED <<argv, registered, extract_pc, candidates, min_rows,
                   raw_files, out>>
    /\ UNCHANGED <<indexVars, enrichVars>>

\* Lines 114-116, 131-132: the request, raise_for_status or resp.json()
\* raises; the exception is caught and printed.
RequestFails ==
    /\ extract_pc = "loop"
    /\ tried < Len(candidates.list)
    /\ \E r \in Responses :
         /\ r.kind \in {"http_error", "not_json"}
         /\ Skip(r)

\* Lines 117-119: not a list, or a list with no entry after the header.
UnexpectedFormat ==
    /\ extract_pc = "loop"
    /\ tried < Len(candidates.list)
    /\ \E r \in Responses :
         /\ r.kind = "not_list" \/ (r.kind = "list" /\ r.len < 2)
         /\ Skip(r)

\* Lines 120-121, 129-130: fewer rows than min_rows.
TooFew ==
    /\ extract_pc = "loop"
    /\ tried < Len(candidates.list)
    /\ \E r \in Responses :
         /\ r.kind = "list" /\ r.len >= 2
         /\ ~EnoughRows(RowCount(r), min_rows)
         /\ Skip(r)

\* Lines 121-124, 131-132: enough entries, but they are not rows; building
\* the frame raises before anything is written, and the exception is caught.
FrameFails ==
    /\ extract_pc = "loop"
    /\ tried < Len(candidates.list)
    /\ \E r \in Responses :
         /\ r.kind = "list" /\ r.len >= 2
         /\ EnoughRows(RowCount(r), min_rows)
         /\ ~r.tabular
         /\ Skip(r)

\* Lines 121-128: enough rows; the CSV of the table is written and its path
\* returned.
Found ==
    /\ extract_pc = "loop"
    /\ tried < Len(candidates.list)
    /\ \E r \in Responses :
         /\ r.kind = "list" /\ r.len >= 2
         /\ EnoughRows(RowCount(r), min_rows)
         /\ r.tabular
         /\ data' = r
    /\ tried' = tried + 1
    /\ raw_files' = raw_files \cup {SidraCsv(candidates.list[tried + 1])}
    /\ out' = ReturnedPath(SidraCsv(candidates.list[tried + 1]))
    /\ extract_pc' = "returned"
    /\ UNCHANGED <<argv, registered, candidates, min_rows, passed_over>>
    /\ UNCHANGED <<indexVars, enrichVars>>

\* Line 133: the list is exhausted.
NoneFound ==
    /\ extract_pc = "loop"
    /\ tried = Len(candidates.list)
    /\ out' = RaisedError("RuntimeError")
    /\ extract_pc' = "raised"
    /\ UNCHANGED <<argv, registered, candidates, min_rows, tried, data,
                   raw_files, passed_over>>
    /\ UNCHANGED <<indexVars, enrichVars>>

NextExtract ==
    \/ AddArgument
    \/ ArgumentConflict
    \/ DiscoverStart
    \/ RequestFails
    \/ UnexpectedFormat
    \/ TooFew
    \/ FrameFails
    \/ Found
    \/ NoneFound

SpecExtract == InitExtract /\ [][NextExtract]_vars

----------------------------------------------------------------------------
(* Properties.                                                             *)

Returned == pc = "done"
Values == result.values
NRows == Len(df.rows)

\* The cells of row i in the selected feature columns.
FeatureCells(i) == [j \in 1..Len(features) |-> df.rows[i][features[j]]]

\* The pre-rescale score vector exists and is constant (max == min).
ScoreConstant == score # << >> /\ EqNum(MaxOf(score), MinOf(score))
ScoreSpread == score # << >> /\ ~EqNum(MaxOf(score), MinOf(score))

\* The quotient v lies in [0, 1], is 0, is 1, is a / b.
InUnit(v) ==
    /\ SgnNum(v.den) > 0
    /\ SgnNum(v.num) >= 0
    /\ LeqNum(v.num, v.den)
IsRatio(v, a, b) ==
    /\ SgnNum(v.den) > 0
    /\ EqNum(ScaleNum(b, v.num), ScaleNum(a, v.den))
LessValue(v, w) ==
    \* v < w for two quotients of one returned series (same den > 0)
    SgnNum(SubNum(v.num, w.num)) < 0

\* C1: compute_index never raises, whatever the shape of the table and the
\* feature selection: no call ends in an exception.
C1_NeverRaises == pc # "raised"

\* C2: every returned score is a finite number of [0, 1]; when the scores
\* before the rescale differ, the rows of minimal score get 0 and the rows
\* of maximal score get 1.
C2_ScoresInUnitInterval ==
    Returned =>
        /\ \A i \in 1..Len(Values) : InUnit(Values[i])
        /\ ScoreSpread =>
              \A i \in 1..Len(Values) :
                  /\ EqNum(score[i], MinOf(score)) => IsRatio(Values[i], 0, 1)
                  /\ EqNum(score[i], MaxOf(score)) => IsRatio(Values[i], 1, 1)

\* A two-feature call returned a score strictly between 0 and 1.
C2_Witness ==
    /\ Returned
    /\ Len(features) = 2
    /\ \E i \in 1..Len(Values) :
          /\ SgnNum(Values[i].num) > 0
          /\ SgnNum(SubNum(Values[i].den, Values[i].num)) > 0

\* C3: the returned series has one score per input row, under the input's
\* row index, and the score at position i is the one of row i: it is the
\* rescaled score[i], and rows equal on the features have equal scores.
C3_OneScorePerRow ==
    Returned =>
        /\ result.kind = "Series"
        /\ Len(Values) = NRows
        /\ result.index = df.index
        /\ \A i, j \in 1..NRows :
              FeatureCells(i) = FeatureCells(j) => Values[i] = Values[j]
        /\ ScoreSpread =>
              \A i \in 1..NRows :
                  /\ EqNum(Values[i].num, SubNum(score[i], MinOf(score)))
                  /\ EqNum(Values[i].den, SubNum(MaxOf(score), MinOf(score)))

\* A three-row table whose first and last rows score differently returned.
C3_Witness ==
    /\ Returned
    /\ NRows = 3
    /\ ScoreSpread
    /\ Values[1] # Values[3]

\* C4: with no feature (none given, or none numeric), the call does not
\* raise and returns 0.0 for every row, without filling, scaling or
\* reducing anything.
C4_NoFeaturesZeros ==
    Len(features) = 0 =>
        /\ pc \in {"start", "check", "done"}
        /\ Returned =>
              /\ result.kind = "Series"
              /\ Len(Values) = NRows
              /\ \A i \in 1..NRows : Values[i] = ZeroScore
              /\ X = << >> /\ Xs = << >> /\ score = << >>

\* Features omitted on a three-row table of text only: three zeros.
C4_Witness ==
    /\ Returned
    /\ caller_features = None
    /\ df.columns = << "municipio" >>
    /\ Values = << ZeroScore, ZeroScore, ZeroScore >>

\* C5: when the score vector before the rescale is constant, nothing is
\* divided and every row gets 0.0; a table of one row, or of rows identical
\* on the features, has a constant score vector; a feature column of zero
\* variance standardizes to zeros, without raising.
C5_DegenerateZeros ==
    /\ (Returned /\ ScoreConstant) =>
          /\ Len(Values) = NRows
          /\ \A i \in 1..NRows : Values[i] = ZeroScore
    /\ (score # << >> /\ \A i \in 1..Len(X) : X[i] = X[1]) => ScoreConstant
    /\ Xs # << >> =>
          \A j \in 1..Len(features) :
              (\A i \in 1..Len(X) : X[i][j] = X[1][j]) =>
                  \A i \in 1..Len(Xs) : Xs[i][j] = [num |-> 0, rad |-> 1]
    /\ (pc = "raised") => Len(X) = 0

\* The single column [5, 5, 5] returned [0.0, 0.0, 0.0].
C5_Witness ==
    /\ Returned
    /\ X = << <<5>>, <<5>>, <<5>> >>
    /\ Xs = << <<[num |-> 0, rad |-> 1]>>, <<[num |-> 0, rad |-> 1]>>,
               <<[num |-> 0, rad |-> 1]>> >>
    /\ Values = << ZeroScore, ZeroScore, ZeroScore >>

\* The standardized value z = num / sqrt(rad) has the sign sg and the
\* square a / b.
IsStd(z, sg, a, b) == Sign(z.num) = sg /\ b * z.num * z.num = a * z.rad

ScenarioA == X = << <<10>>, <<20>>, <<30>> >> /\ Len(features) = 1

\* C6 as stated: the single column [10, 20, 30] standardizes to exactly
\* [-1, 0, 1] and the call returns [0.0, 0.5, 1.0].
C6_StandardizedUnit ==
    (ScenarioA /\ Xs # << >>) =>
        /\ IsStd(Xs[1][1], -1, 1, 1)
        /\ IsStd(Xs[2][1], 0, 0, 1)
        /\ IsStd(Xs[3][1], 1, 1, 1)
        /\ Returned =>
              /\ IsRatio(Values[1], 0, 1)
              /\ IsRatio(Values[2], 1, 2)
              /\ IsRatio(Values[3], 1, 1)

\* C6, amended: the single column [10, 20, 30], divided by its population
\* standard deviation sqrt(200/3), standardizes to
\* [-sqrt(3/2), 0, sqrt(3/2)], and the call returns [0.0, 0.5, 1.0].
C6_StandardizedPopulation ==
    (ScenarioA /\ Xs # << >>) =>
        /\ IsStd(Xs[1][1], -1, 3, 2)
        /\ IsStd(Xs[2][1], 0, 0, 1)
        /\ IsStd(Xs[3][1], 1, 3, 2)
        /\ Returned =>
              /\ IsRatio(Values[1], 0, 1)
              /\ IsRatio(Values[2], 1, 2)
              /\ IsRatio(Values[3], 1, 1)

\* The call on the single column [10, 20, 30] returned.
C6_Witness == ScenarioA /\ Returned /\ Len(Values) = 3

MinInt(S) == CHOOSE m \in S : \A x \in S : m <= x
MaxInt(S) == CHOOSE m \in S : \A x \in S : x <= m

\* The zero-filled column of a one-feature call.
Column1 == {X[i][1] : i \in 1..Len(X)}

\* C7: with one feature whose zero-filled column x is not constant, the
\* score before the rescale is the standardized column itself, row i gets
\* (x_i - min x) / (max x - min x), and the scores are ordered as x is.
C7_SingleFeatureMinMax ==
    (Returned /\ Len(features) = 1 /\ Cardinality(Column1) > 1) =>
        /\ \A i \in 1..NRows :
              /\ score[i] = Num(Xs[i][1].num, Xs[i][1].rad, 0, 1, 1)
              /\ IsRatio(Values[i], X[i][1] - MinInt(Column1),
                         MaxInt(Column1) - MinInt(Column1))
        /\ \A i, j \in 1..NRows :
              /\ X[i][1] < X[j][1] => LessValue(Values[i], Values[j])
              /\ X[i][1] = X[j][1] => Values[i] = Values[j]

\* A one-feature call on a column of three distinct values returned.
C7_Witness ==
    /\ Returned
    /\ Len(features) = 1
    /\ Cardinality(Column1) = 3
    /\ LessValue(Values[3], Values[1])

\* The selected columns with every missing cell set to 0, and what
\* compute_index returns on a dense matrix without missing cell.
ZeroFilled ==
    [i \in 1..NRows |->
        [j \in 1..Len(features) |->
            IF FeatureCells(i)[j] = NaN THEN 0 ELSE FeatureCells(i)[j][1]]]
NormalizedOf(s) ==
    LET hi == MaxOf(s)
        lo == MinOf(s)
    IN  IF EqNum(hi, lo)
        THEN [i \in 1..Len(s) |-> ZeroScore]
        ELSE [i \in 1..Len(s) |-> [num |-> SubNum(s[i], lo), den |-> SubNum(hi, lo)]]
DenseOutcomes(M, k) ==
    IF k = 1
    THEN {NormalizedOf(Ravel(FitTransform(M, 1)))}
    ELSE {NormalizedOf(s) : s \in PcaScores(FitTransform(M, k))}
HasMissing == \E i \in 1..NRows : \E j \in 1..Len(features) : FeatureCells(i)[j] = NaN

\* C8: a missing cell of a feature column is set to 0 before the column is
\* scaled: the matrix that is scaled holds 0 there, and the call returns what
\* it returns on the table with the cell set to 0.
C8_FillThenScale ==
    /\ (X # << >> /\ Len(features) > 0) => X = ZeroFilled
    /\ (Xs # << >>) => Xs = FitTransform(ZeroFilled, Len(features))
    /\ (Returned /\ Len(features) > 0) =>
          Values \in DenseOutcomes(ZeroFilled, Len(features))

\* populacao = [missing, 5, 10] alone returned [0.0, 0.5, 1.0]: the filled 0
\* is the column's minimum.
C8_Witness ==
    /\ Returned
    /\ features = << "populacao" >>
    /\ NRows = 3
    /\ FeatureCells(1) = << NaN >>
    /\ X = << <<0>>, <<5>>, <<10>> >>
    /\ IsRatio(Values[2], 1, 2)

ConstantColumn(j) == \A i \in 1..Len(X) : X[i][j] = X[1][j]

\* C9: with two feature columns, one constant and one varying, the returned
\* scores are ordered as the varying column is (as the scores computed from
\* the varying column alone are, by C7).
C9_SameRankOrdering ==
    (Returned /\ Len(features) = 2) =>
        \A v \in 1..2 :
            (ConstantColumn(3 - v) /\ ~ConstantColumn(v)) =>
                \A i, j \in 1..NRows :
                    LessValue(Values[i], Values[j]) <=> X[i][v] < X[j][v]

----------------------------------------------------------------------------
(* Frame, feature selection and the principal axis.                        *)

\* The selected columns of table d under the feature list f, every missing
\* cell set to 0, and the results compute_index can give on d with the
\* explicit list f, computed from d and f alone.
ZeroFilledOf(d, f) ==
    [i \in 1..Len(d.rows) |->
        [j \in 1..Len(f) |->
            IF d.rows[i][f[j]] = NaN THEN 0 ELSE d.rows[i][f[j]][1]]]
ExplicitOutcomes(d, f) ==
    IF Len(f) = 0
    THEN {[kind |-> "Series", index |-> d.index,
           values |-> [i \in 1..Len(d.rows) |-> ZeroScore]]}
    ELSE IF Len(d.rows) = 0
    THEN {[kind |-> "ValueError", index |-> << >>, values |-> << >>]}
    ELSE {[kind |-> "Series", index |-> d.index, values |-> v] :
            v \in DenseOutcomes(ZeroFilledOf(d, f), Len(f))}

\* The columns of the table that hold numbers, in table order.
NumericList == SelectSeq(df.columns, LAMBDA c : Dtype(c) = "number")
EffectiveFeatures == IF caller_features = None THEN NumericList ELSE caller_features

Ended == pc \in {"done", "raised"}

\* C11: compute_index has no side effect: no step of a call changes the
\* caller's table or the caller's feature list, and what a call returns or
\* raises is a result of its own arguments, whatever was called before.
C11_NoSideEffects ==
    [][ /\ ~Ended => (df' = df /\ caller_features' = caller_features)
        /\ Ended' => result' \in ExplicitOutcomes(df', EffectiveFeatures') ]_vars

\* A call that filled a missing cell of populacao has returned, and the
\* caller's table still has the missing cell.
C11_Witness ==
    /\ Returned
    /\ "populacao" \in Range(features)
    /\ \E i \in 1..NRows : df.rows[i]["populacao"] = NaN /\ X[i][Len(features)] = 0

\* C12: with features omitted, the features used are exactly the numeric
\* columns of the table, in table order: the text column is left out, the
\* numeric key municipio_id is kept, and the call ends as the call with that
\* list passed explicitly does.
C12_DefaultNumericColumns ==
    (caller_features = None /\ pc # "start") =>
        /\ features = NumericList
        /\ "municipio" \notin Range(features)
        /\ \A c \in Range(df.columns) : c # "municipio" => c \in Range(features)
        /\ Ended => result \in ExplicitOutcomes(df, NumericList)

\* Features omitted on a table of a text column and two numeric columns: the
\* call returned, having used municipio_id and populacao.
C12_Witness ==
    /\ Returned
    /\ caller_features = None
    /\ df.columns = << "municipio_id", "municipio", "populacao" >>
    /\ features = << "municipio_id", "populacao" >>
    /\ NRows = 3
    /\ ScoreSpread

\* Largest coefficient of the integer directions the principal axis is
\* compared with.
MaxDir == 2

Directions ==
    {w \in (-MaxDir..MaxDir) \X (-MaxDir..MaxDir) : w # <<0, 0>>}

\* Sum of the squares of column j of the standardized matrix (n for a column
\* of unit variance, 0 for a constant one).
SumSquares(Z, j) ==
    SumSeq([i \in 1..Len(Z) |-> Z[i][j].num * Z[i][j].num]) \div Z[1][j].rad

\* Sign of (variance of the projections on w) - (variance of the projections
\* on u), w and u scaled to unit length.  The sum of squares of the
\* projections on (a, b) is a^2 G11 + b^2 G22 + 2 a b G12, with
\* G12 = Cross / sqrt(rad1 * rad2).
VarianceGap(Z, w, u) ==
    LET nw == w[1] * w[1] + w[2] * w[2]
        nu == u[1] * u[1] + u[2] * u[2]
        g1 == SumSquares(Z, 1)
        g2 == SumSquares(Z, 2)
        r == nu * (w[1] * w[1] * g1 + w[2] * w[2] * g2)
             - nw * (u[1] * u[1] * g1 + u[2] * u[2] * g2)
        t == 2 * w[1] * w[2] * nu - 2 * u[1] * u[2] * nw
    IN  SgnNum(Num(r, 1, t * Cross(Z), Z[1][1].rad * Z[1][2].rad, 1))

\* The projections of the rows of Z on the direction w scaled to unit length.
ProjectionOn(Z, w) ==
    [i \in 1..Len(Z) |->
        Num(w[1] * Z[i][1].num, Z[i][1].rad, w[2] * Z[i][2].num, Z[i][2].rad,
            w[1] * w[1] + w[2] * w[2])]

\* C13: with two feature columns, the score before the rescale is the
\* projection of the standardized rows on a unit direction along which the
\* projections have the largest variance among the directions compared.
C13_FirstPrincipalAxis ==
    (pc \in {"normalize", "done"} /\ Len(features) = 2) =>
        \E w \in Directions :
            /\ score = ProjectionOn(Xs, w)
            /\ \A u \in Directions : VarianceGap(Xs, w, u) >= 0

\* Two varying, negatively correlated columns were reduced to one score.
C13_Witness ==
    /\ pc = "normalize"
    /\ Len(features) = 2
    /\ Varies(Xs, 1) /\ Varies(Xs, 2)
    /\ Cross(Xs) < 0
    /\ ScoreSpread

----------------------------------------------------------------------------
(* choose_population_csv.                                                  *)

\* The call of choose_population_csv has ended.
Chosen == choose_pc \in {"returned", "raised"}

\* The real file exists, can be read and has at least one data row.
Usable(f) == f.exists /\ f.readable /\ f.rows >= 1

\* C14: choose_population_csv returns the real file exactly when it exists,
\* can be read and has at least one data row; otherwise it returns the seed
\* file exactly when the seed exists (whatever the seed holds), and it raises
\* FileNotFoundError exactly when there is neither a usable real file nor a
\* seed file.
C14_ChoosePopulationCsv ==
    Chosen =>
        /\ (pop_csv = ReturnedPath(RealPath)) <=> Usable(real_file)
        /\ (pop_csv = ReturnedPath(SeedPath))
               <=> (~Usable(real_file) /\ seed_file.exists)
        /\ (pop_csv = RaisedError("FileNotFoundError"))
               <=> (~Usable(real_file) /\ ~seed_file.exists)
        /\ (choose_pc = "raised") <=> (pop_csv.kind = "FileNotFoundError")

\* The real file is there and readable but empty, and the seed was returned.
C14_Witness ==
    /\ choose_pc = "returned"
    /\ real_file.exists /\ real_file.readable /\ real_file.rows = 0
    /\ read_df = Frame(0)
    /\ pop_csv = ReturnedPath(SeedPath)

----------------------------------------------------------------------------
(* main of src/src/extract.py.                                             *)

\* C15: a run of main with --sidra-quick on the command line reaches the
\* quick search step of lines 411-417; it does not fail earlier in main.
C15_QuickSearchReached ==
    ("--sidra-quick" \in argv) => out # RaisedError("ArgumentError")

----------------------------------------------------------------------------
(* discover_and_fetch_sidra_population.                                    *)

\* The table of the candidate gone through last.
LastTable == candidates.list[tried]

====
